---- MODULE Spec2Model ----
(***************************************************************************)
(* A model of Assignment 2/preprocessing_13-5.ipynb: the participant       *)
(* loader load_participant_arrays and the three transforms minmax_scale,   *)
(* zscore and downsample.                                                  *)
(*                                                                         *)
(* Strings are sequences of one-character strings, so that split, join,    *)
(* startswith, the glob pattern and the chunk regular expression are       *)
(* computed character by character.  A matrix is a sequence of rows, each  *)
(* a sequence of numbers.  An ndarray is an object with an identity and a  *)
(* window (offsets and strides) on a buffer of the heap, so that a view    *)
(* and a copy are different things.                                        *)
(***************************************************************************)
EXTENDS Integers, Sequences, FiniteSets, TLC

VARIABLES
    fs,        \* loader: the files of base_dir, each [id, name, data]
    pending,   \* loader: paths glob.glob returned and the loop has not reached
    buckets,   \* loader: task -> list of (chunk_num, matrix)
    opened,    \* loader: the paths handed to h5py.File, in order
    out,       \* loader: the list `out` of the second loop
    ti,        \* loader: index of the next task of `for task, lst in buckets.items()`
    lpc,       \* loader: "start" | "loop" | "concat" | "returned" | "raised"
    lres,      \* loader: what the call produced (a tuple or an exception)
    mem,       \* transforms: heap, buffer id -> matrix
    arr,       \* transforms: the ndarray passed in
    call,      \* transforms: the call made (function and arguments)
    ret,       \* transforms: what the call produced (an ndarray or an exception)
    arr0,      \* transforms: the values `arr` held when the call was made
    tpc        \* transforms: "start" | "returned" | "modified"

lvars == <<fs, pending, buckets, opened, out, ti, lpc, lres>>
tvars == <<mem, arr, call, ret, arr0, tpc>>
vars == <<fs, pending, buckets, opened, out, ti, lpc, lres, mem, arr, call, ret,
          arr0, tpc>>


(***************************************************************************)
(* Bounds                                                                  *)
(***************************************************************************)
MaxFiles == 3       \* files in base_dir
MaxRows == 2        \* rows of the array handed to downsample
MaxCols == 3        \* columns of the array handed to downsample
MaxFactor == 3      \* largest factor argument
MaxRate == 5        \* largest orig_rate and target_rate
ScaleCols == 3      \* columns of the array handed to minmax_scale and zscore
MaxVal == 1         \* largest element of the array handed to minmax_scale and zscore

(***************************************************************************)
(* Strings                                                                 *)
(***************************************************************************)
Digits == <<"0", "1", "2", "3", "4", "5", "6", "7", "8", "9">>

IsDigit(ch) == \E i \in 1..10 : Digits[i] = ch

DigitVal(ch) == (CHOOSE i \in 1..10 : Digits[i] = ch) - 1

\* str.startswith
StartsWith(s, p) == Len(s) >= Len(p) /\ SubSeq(s, 1, Len(p)) = p

\* str.endswith
EndsWith(s, p) == Len(s) >= Len(p) /\ SubSeq(s, Len(s) - Len(p) + 1, Len(s)) = p

\* str.split(sep) for a one-character separator: the list of fields
RECURSIVE Split(_, _)
Split(s, sep) ==
    IF \A i \in 1..Len(s) : s[i] # sep
    THEN <<s>>
    ELSE LET k == CHOOSE i \in 1..Len(s) :
                      s[i] = sep /\ \A j \in 1..(i - 1) : s[j] # sep
         IN <<SubSeq(s, 1, k - 1)>> \o Split(SubSeq(s, k + 1, Len(s)), sep)

\* sep.join(parts)
RECURSIVE Join(_, _)
Join(parts, sep) ==
    IF Len(parts) = 0 THEN <<>>
    ELSE IF Len(parts) = 1 THEN parts[1]
    ELSE parts[1] \o <<sep>> \o Join(Tail(parts), sep)

\* os.path.basename: what follows the last "/"
Basename(path) ==
    LET parts == Split(path, "/") IN parts[Len(parts)]

\* os.path.join(base_dir, name)
PathJoin(dir, name) == dir \o <<"/">> \o name

\* int(digits) for a non-empty run of decimal digits
RECURSIVE ParseInt(_)
ParseInt(ds) ==
    IF Len(ds) = 0 THEN 0
    ELSE 10 * ParseInt(SubSeq(ds, 1, Len(ds) - 1)) + DigitVal(ds[Len(ds)])

(***************************************************************************)
(* load_participant_arrays                                                 *)
(***************************************************************************)
\* the four task names
TaskRest == <<"r", "e", "s", "t">>
TaskMotor == <<"t", "a", "s", "k", "_", "m", "o", "t", "o", "r">>
TaskStoryMath ==
    <<"t", "a", "s", "k", "_", "s", "t", "o", "r", "y", "_", "m", "a", "t", "h">>
TaskWorkingMemory ==
    <<"t", "a", "s", "k", "_", "w", "o", "r", "k", "i", "n", "g", "_",
      "m", "e", "m", "o", "r", "y">>

\* mutant of TASKS: the dict literal lists task_motor first
TASKS_MotorFirst == <<TaskMotor, TaskRest, TaskStoryMath, TaskWorkingMemory>>

\* the keys of `buckets`, in the order the dict literal inserts them
TASKS == <<TaskRest, TaskMotor, TaskStoryMath, TaskWorkingMemory>>

TaskSet == {TaskRest, TaskMotor, TaskStoryMath, TaskWorkingMemory}

\* base_dir (its default) and str(participant_id)
BaseDir == <<"t", "r", "a", "i", "n">>
ParticipantStr == <<"7">>
H5Ext == <<".", "h", "5">>

\* fnmatch of a directory entry against f"*_{participant_id}_*.h5"; a leading
\* "*" does not match a hidden file
GlobMatch(name) ==
    LET mid == <<"_">> \o ParticipantStr \o <<"_">>
        n == Len(name)
        m == Len(mid)
    IN /\ n >= 1
       /\ name[1] # "."
       /\ EndsWith(name, H5Ext)
       /\ \E i \in 1..n : /\ i + m - 1 <= n - Len(H5Ext)
                          /\ SubSeq(name, i, i + m - 1) = mid

\* _get_dataset_name
GetDatasetName(path) ==
    LET parts == Split(Basename(path), "_")
    IN Join(SubSeq(parts, 1, Len(parts) - 1), "_")

\* next((t for t in buckets if ds_name.startswith(t)), None); None is NoTask
NoTask == <<>>

\* mutant of MatchTask: the prefix is compared ignoring case
UpperCase == <<"A", "B", "C", "D", "E", "F", "G", "H", "I", "J", "K", "L", "M",
               "N", "O", "P", "Q", "R", "S", "T", "U", "V", "W", "X", "Y", "Z">>
LowerCase == <<"a", "b", "c", "d", "e", "f", "g", "h", "i", "j", "k", "l", "m",
               "n", "o", "p", "q", "r", "s", "t", "u", "v", "w", "x", "y", "z">>

Lower(s) ==
    [i \in 1..Len(s) |->
        IF \E k \in 1..26 : UpperCase[k] = s[i]
        THEN LowerCase[CHOOSE k \in 1..26 : UpperCase[k] = s[i]]
        ELSE s[i]]

MatchTaskIgnoreCase(ds_name) ==
    IF \E i \in 1..Len(TASKS) : StartsWith(Lower(ds_name), TASKS[i])
    THEN TASKS[CHOOSE i \in 1..Len(TASKS) :
                   /\ StartsWith(Lower(ds_name), TASKS[i])
                   /\ \A j \in 1..(i - 1) : ~StartsWith(Lower(ds_name), TASKS[j])]
    ELSE NoTask

MatchTask(ds_name) ==
    IF \E i \in 1..Len(TASKS) : StartsWith(ds_name, TASKS[i])
    THEN TASKS[CHOOSE i \in 1..Len(TASKS) :
                   /\ StartsWith(ds_name, TASKS[i])
                   /\ \A j \in 1..(i - 1) : ~StartsWith(ds_name, TASKS[j])]
    ELSE NoTask

\* _CHUNK_RE.search(path): group(1) of r'_(\d+)\.h5$'; no match is NoMatch
NoMatch == <<>>

ChunkMatch(path) ==
    IF ~EndsWith(path, H5Ext) THEN NoMatch
    ELSE LET stem == SubSeq(path, 1, Len(path) - Len(H5Ext))
             parts == Split(stem, "_")
             last == parts[Len(parts)]
         IN IF /\ Len(parts) >= 2
               /\ Len(last) >= 1
               /\ \A i \in 1..Len(last) : IsDigit(last[i])
            THEN last
            ELSE NoMatch

\* chunk_num = int(chunk_match.group(1)) if chunk_match else 0
ChunkNum(path) ==
    IF ChunkMatch(path) = NoMatch THEN 0 ELSE ParseInt(ChunkMatch(path))

\* f[ds_name][()] of the file at `path`: every file holds its matrix under the
\* dataset name derived from its own filename
ReadDataset(files, path) ==
    (CHOOSE f \in files : PathJoin(BaseDir, f.name) = path).data

\* mutant of BucketAppend: one slot per chunk number, a later file with the
\* same number takes the slot of the earlier one
BucketAppendByChunk(lst, item) ==
    IF \E i \in 1..Len(lst) : lst[i].chunk = item.chunk
    THEN [i \in 1..Len(lst) |-> IF lst[i].chunk = item.chunk THEN item ELSE lst[i]]
    ELSE Append(lst, item)

\* buckets[task].append((chunk_num, matrix))
BucketAppend(lst, item) == Append(lst, item)

\* list.sort(key=lambda item: item[0]): stable, ascending by the integer key
RECURSIVE InsertByChunk(_, _)
InsertByChunk(sorted, item) ==
    IF Len(sorted) = 0 THEN <<item>>
    ELSE IF sorted[Len(sorted)].chunk <= item.chunk THEN Append(sorted, item)
    ELSE Append(InsertByChunk(SubSeq(sorted, 1, Len(sorted) - 1), item),
                sorted[Len(sorted)])

RECURSIVE SortByChunkFrom(_, _)
SortByChunkFrom(lst, acc) ==
    IF Len(lst) = 0 THEN acc
    ELSE SortByChunkFrom(Tail(lst), InsertByChunk(acc, Head(lst)))

\* mutant of SortByChunk: the list is left in the order of enumeration
SortByChunkUnsorted(lst) == lst

SortByChunk(lst) == SortByChunkFrom(lst, <<>>)

\* mat.shape
NRows(m) == Len(m)
NCols(m) == IF Len(m) = 0 THEN 0 ELSE Len(m[1])

\* mutant of RowsConsistent: the check reads shape[1]
RowsConsistentOnColumns(matrices) ==
    LET first_cols == NCols(matrices[1])
    IN \A i \in 1..Len(matrices) : NCols(matrices[i]) = first_cols

\* all(mat.shape[0] == first_rows for mat in matrices)
RowsConsistent(matrices) ==
    LET first_rows == NRows(matrices[1])
    IN \A i \in 1..Len(matrices) : NRows(matrices[i]) = first_rows

\* np.concatenate(matrices, axis=1) of 2-D arrays: numpy refuses arrays whose
\* other dimension differs
RECURSIVE HStack(_)
HStack(matrices) ==
    IF Len(matrices) = 1 THEN matrices[1]
    ELSE LET rest == HStack(Tail(matrices))
         IN [r \in 1..NRows(matrices[1]) |-> matrices[1][r] \o rest[r]]

NpConcatenateAxis1(matrices) ==
    IF \A i \in 1..Len(matrices) : NRows(matrices[i]) = NRows(matrices[1])
    THEN [kind |-> "array", value |-> HStack(matrices)]
    ELSE [kind |-> "raise", exc |-> "ValueError", msg |-> "numpy: dimensions must match"]

(***************************************************************************)
(* The files base_dir may hold.  File k holds the matrix whose element     *)
(* (r, c) is 100 * k + 10 * r + c, so every element of an output names the *)
(* file, row and column it came from.                                      *)
(***************************************************************************)
FileName(prefix, pid, suffix) ==
    prefix \o <<"_">> \o pid \o <<"_">> \o suffix \o H5Ext

FileData(k, rows, cols) ==
    [r \in 1..rows |-> [c \in 1..cols |-> 100 * k + 10 * r + c]]

File(k, name, rows, cols) ==
    [id |-> k, name |-> name, data |-> FileData(k, rows, cols)]

Universe ==
    { File(1, FileName(TaskRest, ParticipantStr, <<"2">>), 2, 2),
      File(2, FileName(TaskRest, ParticipantStr, <<"0">>), 2, 1),
      File(3, FileName(TaskRest, ParticipantStr, <<"1">>), 2, 2),
      File(4, FileName(TaskRest, ParticipantStr, <<"1", "0">>), 2, 1),
      File(5, FileName(TaskRest, ParticipantStr, <<"x">>), 2, 1),
      File(6, FileName(TaskRest, ParticipantStr, <<"3">>), 1, 2),
      File(7, FileName(TaskMotor, ParticipantStr, <<"1">>), 1, 1),
      File(8, FileName(TaskStoryMath, ParticipantStr, <<"0", "1">>), 1, 2),
      File(9, FileName(TaskWorkingMemory, ParticipantStr, <<"0">>), 1, 1),
      File(10, FileName(TaskWorkingMemory, ParticipantStr, <<"1">>), 2, 1),
      File(11, FileName(<<"R", "e", "s", "t">>, ParticipantStr, <<"1">>), 2, 1),
      File(12, FileName(<<"t", "a", "s", "k">>, ParticipantStr, <<"1">>), 2, 1),
      File(13, FileName(TaskRest, <<"8">>, <<"1">>), 2, 1) }

(***************************************************************************)
(* The loader's steps                                                      *)
(***************************************************************************)
NoResult == [kind |-> "none"]
NoneEntry == [kind |-> "None"]

NdArray(id, buf, rstep, cstep, nrows, ncols) ==
    [id |-> id, buf |-> buf, rstep |-> rstep, cstep |-> cstep,
     nrows |-> nrows, ncols |-> ncols]

IdleTransform ==
    /\ mem = <<>>
    /\ arr = NdArray(0, 0, 1, 1, 0, 0)
    /\ call = [fn |-> "none"]
    /\ ret = NoResult
    /\ arr0 = <<>>
    /\ tpc = "idle"

InitLoad ==
    /\ IdleTransform
    /\ fs \in {d \in SUBSET Universe : Cardinality(d) <= MaxFiles}
    /\ pending = {}
    /\ buckets = [t \in TaskSet |-> <<>>]
    /\ opened = <<>>
    /\ out = <<>>
    /\ ti = 1
    /\ lpc = "start"
    /\ lres = NoResult

\* glob.glob(pattern): the matching entries of base_dir, as paths
Glob ==
    /\ lpc = "start"
    /\ pending' = {PathJoin(BaseDir, f.name) : f \in {g \in fs : GlobMatch(g.name)}}
    /\ lpc' = "loop"
    /\ UNCHANGED <<fs, buckets, opened, out, ti, lres>>
    /\ UNCHANGED tvars

\* one pass of `for path in glob.glob(pattern)`: glob returns the paths in
\* the order the filesystem lists them, which is any order
ForPath(path) ==
    /\ lpc = "loop"
    /\ path \in pending
    /\ pending' = pending \ {path}
    /\ LET ds_name == GetDatasetName(path)
           task == MatchTask(ds_name)
       IN IF task = NoTask
          THEN UNCHANGED <<buckets, opened>>
          ELSE LET chunk_num == ChunkNum(path)
                   matrix == ReadDataset(fs, path)
               IN /\ opened' = Append(opened, path)
                  /\ buckets' = [buckets EXCEPT ![task] =
                         BucketAppend(@, [chunk |-> chunk_num, matrix |-> matrix])]
    /\ UNCHANGED <<fs, out, ti, lpc, lres>>
    /\ UNCHANGED tvars

\* the first loop is exhausted
EndFor ==
    /\ lpc = "loop"
    /\ pending = {}
    /\ lpc' = "concat"
    /\ UNCHANGED <<fs, pending, buckets, opened, out, ti, lres>>
    /\ UNCHANGED tvars

\* one pass of `for task, lst in buckets.items()`
ForTask ==
    /\ lpc = "concat"
    /\ ti <= Len(TASKS)
    /\ LET task == TASKS[ti]
           lst == buckets[task]
       IN IF Len(lst) = 0
          THEN /\ out' = Append(out, NoneEntry)
               /\ ti' = ti + 1
               /\ UNCHANGED <<buckets, lpc, lres>>
          ELSE LET sorted == SortByChunk(lst)
                   matrices == [i \in 1..Len(sorted) |-> sorted[i].matrix]
                   cat == NpConcatenateAxis1(matrices)
               IN /\ buckets' = [buckets EXCEPT ![task] = sorted]
                  /\ IF ~RowsConsistent(matrices)
                     THEN /\ lpc' = "raised"
                          /\ lres' = [kind |-> "raise", exc |-> "ValueError",
                                      msg |-> "Inconsistent node counts", task |-> task]
                          /\ UNCHANGED <<out, ti>>
                     ELSE IF cat.kind = "raise"
                     THEN /\ lpc' = "raised"
                          /\ lres' = [kind |-> "raise", exc |-> cat.exc,
                                      msg |-> cat.msg, task |-> task]
                          /\ UNCHANGED <<out, ti>>
                     ELSE /\ out' = Append(out, cat)
                          /\ ti' = ti + 1
                          /\ UNCHANGED <<lpc, lres>>
    /\ UNCHANGED <<fs, pending, opened>>
    /\ UNCHANGED tvars

\* tuple(out)
TupleOf(lst) == lst

\* return tuple(out)
Return ==
    /\ lpc = "concat"
    /\ ti > Len(TASKS)
    /\ lpc' = "returned"
    /\ lres' = [kind |-> "tuple", value |-> TupleOf(out)]
    /\ UNCHANGED <<fs, pending, buckets, opened, out, ti>>
    /\ UNCHANGED tvars

NextLoad ==
    \/ Glob
    \/ \E path \in pending : ForPath(path)
    \/ EndFor
    \/ ForTask
    \/ Return

(***************************************************************************)
(* ndarrays                                                                *)
(*                                                                         *)
(* mem is the list of allocated buffers, each [kind, m]: m the matrix and  *)
(* kind what its elements are ("data": numbers as given; "scaled",         *)
(* "standardised": the quotients below; "filtered": the output of scipy's  *)
(* filter, whose numbers are not modelled).  An ndarray is [id, buf,       *)
(* rstep, cstep, nrows, ncols]: element (i, j) is element                  *)
(* (1 + (i-1)*rstep, 1 + (j-1)*cstep) of buffer buf.                       *)
(***************************************************************************)
\* the elements an ndarray shows
ViewValue(m, a) ==
    [i \in 1..a.nrows |->
        [j \in 1..a.ncols |->
            m[a.buf].m[1 + (i - 1) * a.rstep][1 + (j - 1) * a.cstep]]]

Returned(a) == [kind |-> "array", obj |-> a]
Raised(exc, msg) == [kind |-> "raise", exc |-> exc, msg |-> msg]

Min(S) == CHOOSE x \in S : \A y \in S : x <= y
Max(S) == CHOOSE x \in S : \A y \in S : y <= x

\* the elements reduced together with element (i, j): its row (axis=1) or
\* its column (axis=0)
Lane(v, axis, i, j) ==
    IF axis = 1 THEN {v[i][c] : c \in 1..Len(v[i])}
    ELSE {v[r][j] : r \in 1..Len(v)}

LaneSeq(v, axis, i, j) ==
    IF axis = 1 THEN v[i] ELSE [r \in 1..Len(v) |-> v[r][j]]

RECURSIVE SumSeq(_)
SumSeq(xs) == IF Len(xs) = 0 THEN 0 ELSE Head(xs) + SumSeq(Tail(xs))

\* eps = 1e-12, counted in units of 1e-12
Eps == 1

\* mutant of ScaleDenominator: eps is left out
ScaleDenominatorNoEps(mx, mn) == [d |-> mx - mn, e |-> 0]

\* maxs - mins + eps: the number d + e * 1e-12
ScaleDenominator(mx, mn) == [d |-> mx - mn, e |-> Eps]

\* mutant of MinmaxScale: the array is scaled in place (arr -= mins;
\* arr /= ...) and handed back
MinmaxScaleInPlace(m, a, axis) ==
    LET v == ViewValue(m, a)
        reduced == IF axis = 1 THEN a.ncols ELSE a.nrows
        scaled == [i \in 1..a.nrows |-> [j \in 1..a.ncols |->
                     [n |-> v[i][j] - Min(Lane(v, axis, i, j)),
                      den |-> [d |-> Max(Lane(v, axis, i, j)) - Min(Lane(v, axis, i, j)),
                               e |-> Eps]]]]
    IN IF reduced = 0
       THEN [ret |-> Raised("ValueError", "zero-size array to reduction operation"),
             mem |-> m]
       ELSE [ret |-> Returned(a),
             mem |-> [m EXCEPT ![a.buf] = [kind |-> "scaled", m |-> scaled]]]

\* minmax_scale: element (x - min) / (max - min + eps) is the quotient
\* [n, den].  arr.min over an axis of length 0 raises ValueError.
MinmaxScale(m, a, axis) ==
    LET v == ViewValue(m, a)
        reduced == IF axis = 1 THEN a.ncols ELSE a.nrows
        scaled == [i \in 1..a.nrows |-> [j \in 1..a.ncols |->
                     [n |-> v[i][j] - Min(Lane(v, axis, i, j)),
                      den |-> ScaleDenominator(Max(Lane(v, axis, i, j)),
                                               Min(Lane(v, axis, i, j)))]]]
    IN IF reduced = 0
       THEN [ret |-> Raised("ValueError", "zero-size array to reduction operation"),
             mem |-> m]
       ELSE [ret |-> Returned(NdArray(a.id + 1, Len(m) + 1, 1, 1, a.nrows, a.ncols)),
             mem |-> Append(m, [kind |-> "scaled", m |-> scaled])]

\* zscore: with N the lane's length, S its sum and Q its sum of squares,
\* element (x - mean) / (std + eps) is ((N*x - S)/N) / (sqrt(N*Q - S*S)/N + eps),
\* kept as [n |-> N*x - S, var |-> N*Q - S*S, cnt |-> N, e |-> Eps]
Zscore(m, a, axis) ==
    LET v == ViewValue(m, a)
        std == [i \in 1..a.nrows |-> [j \in 1..a.ncols |->
                  LET lane == LaneSeq(v, axis, i, j)
                      N == Len(lane)
                      S == SumSeq(lane)
                      Q == SumSeq([k \in 1..N |-> lane[k] * lane[k]])
                  IN [n |-> N * v[i][j] - S, var |-> N * Q - S * S,
                      cnt |-> N, e |-> Eps]]]
    IN [ret |-> Returned(NdArray(a.id + 1, Len(m) + 1, 1, 1, a.nrows, a.ncols)),
        mem |-> Append(m, [kind |-> "standardised", m |-> std])]

(***************************************************************************)
(* downsample                                                              *)
(***************************************************************************)
\* Optional[int] arguments
NoneArg == [given |-> FALSE]
Some(x) == [given |-> TRUE, v |-> x]

\* mutant of RoundDiv: int(orig_rate / target_rate), the quotient cut
\* towards zero
RoundDivTruncate(orig_rate, target_rate) ==
    LET a == IF orig_rate < 0 THEN -orig_rate ELSE orig_rate
        b == IF target_rate < 0 THEN -target_rate ELSE target_rate
    IN IF (orig_rate < 0) = (target_rate < 0) THEN a \div b ELSE -(a \div b)

\* int(round(orig_rate / target_rate)) for target_rate # 0: Python 3's round
\* of the quotient, halves to the even integer
RoundDiv(orig_rate, target_rate) ==
    LET a == IF target_rate < 0 THEN -orig_rate ELSE orig_rate
        b == IF target_rate < 0 THEN -target_rate ELSE target_rate
        q == IF a >= 0 THEN a \div b ELSE -((-a + b - 1) \div b)
        rem == a - q * b
    IN IF 2 * rem < b THEN q
       ELSE IF 2 * rem > b THEN q + 1
       ELSE IF q % 2 = 0 THEN q ELSE q + 1

\* mutant of NoOpFactor: if factor < 1
NoOpFactorStrict(factor) == factor < 1

\* if factor <= 1
NoOpFactor(factor) == factor <= 1

\* the length of range(0, n, step), step > 0: what slice(None, None, step) selects
SliceLen(n, step) == IF n <= 0 THEN 0 ELSE (n - 1) \div step + 1

\* arr[tuple(slicer)] with slicer[axis] = slice(None, None, factor): a view on
\* arr's buffer; a step of 0 raises ValueError
SliceAxis(a, axis, factor) ==
    IF factor = 0 THEN Raised("ValueError", "slice step cannot be zero")
    ELSE IF axis = 1
    THEN Returned(NdArray(a.id + 1, a.buf, a.rstep, a.cstep * factor,
                          a.nrows, SliceLen(a.ncols, factor)))
    ELSE Returned(NdArray(a.id + 1, a.buf, a.rstep * factor, a.cstep,
                          SliceLen(a.nrows, factor), a.ncols))

\* scipy.signal.decimate(arr, factor, axis=axis, zero_phase=True): a new array,
\* every factor-th sample of the filtered signal; scipy refuses some inputs
\* (a signal too short for its filter's padding), `accepted` says which
Decimate(m, a, axis, factor, accepted) ==
    LET nr == IF axis = 1 THEN a.nrows ELSE SliceLen(a.nrows, factor)
        nc == IF axis = 1 THEN SliceLen(a.ncols, factor) ELSE a.ncols
    IN IF ~accepted
       THEN [ret |-> Raised("ValueError", "scipy.signal.decimate"), mem |-> m]
       ELSE [ret |-> Returned(NdArray(a.id + 1, Len(m) + 1, 1, 1, nr, nc)),
             mem |-> Append(m, [kind |-> "filtered",
                                m |-> [i \in 1..nr |-> [j \in 1..nc |-> 0]]])]

Downsample(m, a, c, accepted) ==
    IF ~c.factor.given /\ ~c.target_rate.given
    THEN [ret |-> Raised("ValueError", "Specify either factor or target_rate"),
          mem |-> m]
    ELSE IF ~c.factor.given /\ c.target_rate.v = 0
    THEN [ret |-> Raised("ZeroDivisionError", "division by zero"), mem |-> m]
    ELSE LET factor == IF c.factor.given THEN c.factor.v
                       ELSE RoundDiv(c.orig_rate, c.target_rate.v)
         IN IF NoOpFactor(factor) THEN [ret |-> Returned(a), mem |-> m]
            ELSE IF c.method = "slice"
            THEN [ret |-> SliceAxis(a, c.axis, factor), mem |-> m]
            ELSE IF c.method = "decimate"
            THEN Decimate(m, a, c.axis, factor, accepted)
            ELSE [ret |-> Raised("ValueError", "method must be 'slice' or 'decimate'"),
                  mem |-> m]

(***************************************************************************)
(* The transforms' steps                                                   *)
(***************************************************************************)
Axes == {0, 1}
Methods == {"slice", "decimate", "cubic"}
FactorArgs == {NoneArg} \cup {Some(x) : x \in (-1)..MaxFactor}
TargetRateArgs == {NoneArg} \cup {Some(x) : x \in (-1)..MaxRate}
OrigRates == 0..MaxRate

\* the array whose element (r, c) is 10 * r + c
TaggedData(rows, cols) == [r \in 1..rows |-> [c \in 1..cols |-> 10 * r + c]]

IdleLoad ==
    /\ fs = {}
    /\ pending = {}
    /\ buckets = [t \in TaskSet |-> <<>>]
    /\ opened = <<>>
    /\ out = <<>>
    /\ ti = 1
    /\ lpc = "idle"
    /\ lres = NoResult

StartWith(data) ==
    /\ mem = <<[kind |-> "data", m |-> data]>>
    /\ arr = NdArray(1, 1, 1, 1, NRows(data), IF NRows(data) = 0 THEN 0 ELSE Len(data[1]))
    /\ call = [fn |-> "none"]
    /\ ret = NoResult
    /\ arr0 = data
    /\ tpc = "start"

InitTransform ==
    /\ IdleLoad
    /\ \E rows \in 1..MaxRows, cols \in 0..MaxCols : StartWith(TaggedData(rows, cols))

\* one row, and two rows: enough to tell a reduction along a row from one
\* along a column or over the whole array
ScaleRowCounts == {1, 2}

InitScale ==
    /\ IdleLoad
    /\ \E rows \in ScaleRowCounts, cols \in 0..ScaleCols :
           \E data \in [1..rows -> [1..cols -> (-1)..MaxVal]] : StartWith(data)

MinmaxScaleCall(axis) ==
    /\ tpc = "start"
    /\ call' = [fn |-> "minmax_scale", axis |-> axis]
    /\ LET r == MinmaxScale(mem, arr, axis)
       IN ret' = r.ret /\ mem' = r.mem
    /\ tpc' = "returned"
    /\ UNCHANGED <<arr, arr0>>
    /\ UNCHANGED lvars

ZscoreCall(axis) ==
    /\ tpc = "start"
    /\ call' = [fn |-> "zscore", axis |-> axis]
    /\ LET r == Zscore(mem, arr, axis)
       IN ret' = r.ret /\ mem' = r.mem
    /\ tpc' = "returned"
    /\ UNCHANGED <<arr, arr0>>
    /\ UNCHANGED lvars

DownsampleCall(factor, target_rate, orig_rate, axis, method) ==
    /\ tpc = "start"
    /\ call' = [fn |-> "downsample", factor |-> factor, target_rate |-> target_rate,
                orig_rate |-> orig_rate, axis |-> axis, method |-> method]
    /\ \E accepted \in BOOLEAN :
           LET r == Downsample(mem, arr, call', accepted)
           IN ret' = r.ret /\ mem' = r.mem
    /\ tpc' = "returned"
    /\ UNCHANGED <<arr, arr0>>
    /\ UNCHANGED lvars

\* the caller assigns to element (i, j) of the array it was handed back
ModifyResult(i, j) ==
    /\ tpc = "returned"
    /\ ret.kind = "array"
    /\ i \in 1..ret.obj.nrows
    /\ j \in 1..ret.obj.ncols
    /\ mem' = [mem EXCEPT ![ret.obj.buf].m[1 + (i - 1) * ret.obj.rstep]
                                         [1 + (j - 1) * ret.obj.cstep] = -1]
    /\ tpc' = "modified"
    /\ UNCHANGED <<arr, call, ret, arr0>>
    /\ UNCHANGED lvars

NextTransform ==
    \/ \E axis \in Axes : MinmaxScaleCall(axis)
    \/ \E axis \in Axes : ZscoreCall(axis)
    \/ \E factor \in FactorArgs, target_rate \in TargetRateArgs,
          orig_rate \in OrigRates, axis \in Axes, method \in Methods :
           DownsampleCall(factor, target_rate, orig_rate, axis, method)
    \/ \E i \in 1..MaxRows, j \in 1..MaxCols : ModifyResult(i, j)

NextScale ==
    \/ \E axis \in Axes : MinmaxScaleCall(axis)
    \/ \E axis \in Axes : ZscoreCall(axis)

(***************************************************************************)
(* Specifications                                                          *)
(***************************************************************************)
SpecLoad == InitLoad /\ [][NextLoad]_vars

SpecTransform == InitTransform /\ [][NextTransform]_vars

SpecScale == InitScale /\ [][NextScale]_vars

(***************************************************************************)
(* What is expected of each file of Universe, written down by hand from    *)
(* its name: whether the participant's pattern finds it, the position in   *)
(* the returned tuple of the task it belongs to (0: none), the chunk index *)
(* in its name (0 when it has none) and whether it has one.                *)
(***************************************************************************)
Expect ==
    << [found |-> TRUE,  pos |-> 1, idx |-> 2,  numbered |-> TRUE],
       [found |-> TRUE,  pos |-> 1, idx |-> 0,  numbered |-> TRUE],
       [found |-> TRUE,  pos |-> 1, idx |-> 1,  numbered |-> TRUE],
       [found |-> TRUE,  pos |-> 1, idx |-> 10, numbered |-> TRUE],
       [found |-> TRUE,  pos |-> 1, idx |-> 0,  numbered |-> FALSE],
       [found |-> TRUE,  pos |-> 1, idx |-> 3,  numbered |-> TRUE],
       [found |-> TRUE,  pos |-> 2, idx |-> 1,  numbered |-> TRUE],
       [found |-> TRUE,  pos |-> 3, idx |-> 1,  numbered |-> TRUE],
       [found |-> TRUE,  pos |-> 4, idx |-> 0,  numbered |-> TRUE],
       [found |-> TRUE,  pos |-> 4, idx |-> 1,  numbered |-> TRUE],
       [found |-> TRUE,  pos |-> 0, idx |-> 1,  numbered |-> TRUE],
       [found |-> TRUE,  pos |-> 0, idx |-> 1,  numbered |-> TRUE],
       [found |-> FALSE, pos |-> 1, idx |-> 1,  numbered |-> TRUE] >>

TaskNames == <<TaskRest, TaskMotor, TaskStoryMath, TaskWorkingMemory>>

\* the files of base_dir that belong to the task at position pos
FilesOf(pos) == {f \in fs : Expect[f.id].found /\ Expect[f.id].pos = pos}

\* the file, row and column an element came from
TagFile(x) == x \div 100
TagRow(x) == (x % 100) \div 10
TagCol(x) == x % 10

FileById(k) == CHOOSE f \in fs : f.id = k

RECURSIVE SumCols(_)
SumCols(S) ==
    IF S = {} THEN 0
    ELSE LET f == CHOOSE g \in S : TRUE
         IN NCols(f.data) + SumCols(S \ {f})

\* the ids of the files opened, in order
OpenedIds ==
    [i \in 1..Len(opened) |->
        (CHOOSE f \in fs : PathJoin(BaseDir, f.name) = opened[i]).id]

\* how often x occurs in matrix m
Occurrences(m, x) ==
    Cardinality({rc \in (1..NRows(m)) \X (1..NCols(m)) : m[rc[1]][rc[2]] = x})

\* C1: each task's output is its chunks' matrices side by side along the time
\* axis, in ascending order of the chunk index in the filename, compared as
\* integers, whatever order the files were enumerated in: every row r of the
\* output is made of rows r of the chunks, each chunk's columns form one
\* unbroken block in their own order, every bucketed chunk is there, and the
\* blocks follow each other by ascending chunk index.
C1_AscendingChunkOrder ==
    lpc = "returned" =>
        \A pos \in 1..4 :
            lres.value[pos].kind = "array" =>
                LET M == lres.value[pos].value
                    T == NCols(M)
                IN /\ \A r \in 1..NRows(M) : Len(M[r]) = T
                   /\ \A r \in 1..NRows(M), p \in 1..T :
                          /\ TagRow(M[r][p]) = r
                          /\ TagFile(M[r][p]) = TagFile(M[1][p])
                          /\ TagCol(M[r][p]) = TagCol(M[1][p])
                   /\ \A f \in FilesOf(pos) :
                          \E p \in 1..T : TagFile(M[1][p]) = f.id
                   /\ T >= 1 => TagCol(M[1][1]) = 1
                   /\ \A p \in 1..(T - 1) :
                          LET a == M[1][p]
                              b == M[1][p + 1]
                          IN IF TagFile(a) = TagFile(b)
                             THEN TagCol(b) = TagCol(a) + 1
                             ELSE /\ TagCol(a) = NCols(FileById(TagFile(a)).data)
                                  /\ TagCol(b) = 1
                                  /\ Expect[TagFile(a)].idx <= Expect[TagFile(b)].idx
                   /\ \A p \in 1..T, q \in 1..T :
                          p < q => Expect[TagFile(M[1][p])].idx
                                       <= Expect[TagFile(M[1][q])].idx

\* chunks 2, 0, 1 of "rest" were read in that order and came out as 0, 1, 2
C1_Witness ==
    /\ lpc = "returned"
    /\ OpenedIds = <<1, 2, 3>>
    /\ lres.value[1].kind = "array"
    /\ lres.value[1].value = << <<211, 311, 312, 111, 112>>,
                                <<221, 321, 322, 121, 122>> >>

\* two files of one task differ in their row count
RowMismatch(pos) ==
    \E f \in FilesOf(pos), g \in FilesOf(pos) : NRows(f.data) # NRows(g.data)

\* C2: the call raises the validation error (ValueError, "Inconsistent node
\* counts") and returns no tuple exactly when some task has two chunks that
\* differ in their row count, whatever the order of enumeration; it raises it
\* at the first such task.
C2_RowMismatchRaises ==
    /\ lpc \in {"returned", "raised"} =>
           /\ (\E pos \in 1..4 : RowMismatch(pos)) <=> lpc = "raised"
           /\ lpc = "raised" =>
                  /\ lres.kind = "raise"
                  /\ lres.exc = "ValueError"
                  /\ lres.msg = "Inconsistent node counts"
                  /\ \E pos \in 1..4 : /\ lres.task = TaskNames[pos]
                                       /\ RowMismatch(pos)
                                       /\ \A q \in 1..(pos - 1) : ~RowMismatch(q)
           /\ lpc = "returned" => lres.kind = "tuple"
    /\ lpc = "concat" => \A pos \in 1..(ti - 1) : ~RowMismatch(pos)

\* the working-memory chunks disagree, the rest chunks agree: the call raises
C2_Witness ==
    /\ lpc = "raised"
    /\ lres.task = TaskWorkingMemory
    /\ Cardinality(FilesOf(1)) >= 1
    /\ ~RowMismatch(1)

\* C6: a returned tuple has four entries, in the order rest, task_motor,
\* task_story_math, task_working_memory; an entry is None exactly when no
\* file belongs to its task, and is otherwise a 2-D array made of that
\* task's files only.
C6_TupleOfFour ==
    lpc = "returned" =>
        /\ lres.kind = "tuple"
        /\ Len(lres.value) = 4
        /\ \A pos \in 1..4 :
               LET e == lres.value[pos]
               IN /\ e.kind \in {"None", "array"}
                  /\ e.kind = "None" <=> FilesOf(pos) = {}
                  /\ e.kind = "array" =>
                         /\ NRows(e.value) >= 1
                         /\ \A r \in 1..NRows(e.value) :
                                Len(e.value[r]) = NCols(e.value)
                         /\ \A r \in 1..NRows(e.value), c \in 1..NCols(e.value) :
                                \E f \in FilesOf(pos) : f.id = TagFile(e.value[r][c])

\* only motor and working-memory files exist: (None, array, None, array)
C6_Witness ==
    /\ lpc = "returned"
    /\ lres.value[1].kind = "None"
    /\ lres.value[2].kind = "array"
    /\ lres.value[3].kind = "None"
    /\ lres.value[4].kind = "array"

\* the files the first loop has been through
Visited ==
    {f \in fs : /\ lpc # "start"
                /\ lpc # "idle"
                /\ Expect[f.id].found
                /\ PathJoin(BaseDir, f.name) \notin pending}

OpenCount(f) ==
    Cardinality({i \in 1..Len(opened) : opened[i] = PathJoin(BaseDir, f.name)})

BucketCount(f, task) ==
    Cardinality({i \in 1..Len(buckets[task]) : buckets[task][i].matrix = f.data})

\* C8 as stated: a file with no known task prefix, or whose name has no
\* chunk number to parse, is not read and is in no bucket.
C8_Original ==
    \A f \in Visited :
        (Expect[f.id].pos = 0 \/ ~Expect[f.id].numbered) =>
            /\ OpenCount(f) = 0
            /\ \A task \in TaskSet : BucketCount(f, task) = 0

\* C8, amended: a file with no known task prefix is skipped (not read, in no
\* bucket, no error); a file with a known prefix is read once and is in its
\* task's bucket, and in no other, also when its name has no chunk number;
\* the first loop raises nothing, and a file the pattern does not find is
\* never read.
C8_SkipUnknownPrefix ==
    /\ \A f \in Visited :
           IF Expect[f.id].pos = 0
           THEN /\ OpenCount(f) = 0
                /\ \A task \in TaskSet : BucketCount(f, task) = 0
           ELSE /\ OpenCount(f) = 1
                /\ \A pos \in 1..4 :
                       BucketCount(f, TaskNames[pos]) =
                           IF pos = Expect[f.id].pos THEN 1 ELSE 0
    /\ \A f \in fs \ Visited :
           /\ OpenCount(f) = 0
           /\ \A task \in TaskSet : BucketCount(f, task) = 0
    /\ lpc \in {"loop", "concat"} => lres.kind = "none"

\* "Rest_7_1.h5" and "rest_7_x.h5" have both been through the loop
C8_Witness ==
    /\ lpc = "concat"
    /\ \E f \in Visited : f.id = 11
    /\ \E f \in Visited : f.id = 5

\* C10: each file of a task is in that task's output once and in no other
\* output: the output's column count is the sum of its files' column counts,
\* and every element of every file occurs once in its task's output and
\* nowhere else, also for files with the same chunk index and files with none.
C10_EveryChunkOnce ==
    lpc = "returned" =>
        \A pos \in 1..4 :
            /\ lres.value[pos].kind = "array" =>
                   NCols(lres.value[pos].value) = SumCols(FilesOf(pos))
            /\ \A f \in FilesOf(pos) :
                   \A r \in 1..NRows(f.data), c \in 1..NCols(f.data) :
                       \A q \in 1..4 :
                           /\ q = pos => lres.value[q].kind = "array"
                           /\ lres.value[q].kind = "array" =>
                                  Occurrences(lres.value[q].value, f.data[r][c]) =
                                      IF q = pos THEN 1 ELSE 0

\* "rest_7_0.h5" and "rest_7_x.h5" are both chunk 0 and both in the output
C10_Witness ==
    /\ lpc = "returned"
    /\ {f.id : f \in FilesOf(1)} = {2, 5}
    /\ NCols(lres.value[1].value) = 2

(***************************************************************************)
(* The transforms' claims                                                  *)
(***************************************************************************)
Abs(x) == IF x < 0 THEN -x ELSE x

\* k is an integer nearest to o / r
Nearest(k, o, r) == 2 * Abs(o - k * r) <= Abs(r)

\* o / r < 3/2: the quotients that round to 1 or less
BelowThreeHalves(o, r) ==
    \/ r > 0 /\ 2 * o < 3 * r
    \/ r < 0 /\ 2 * o > 3 * r

\* the call is a downsample whose factor, given or derived, is at most 1
FactorAtMostOne(c) ==
    /\ c.fn = "downsample"
    /\ \/ c.factor.given /\ c.factor.v <= 1
       \/ /\ ~c.factor.given
          /\ c.target_rate.given
          /\ c.target_rate.v # 0
          /\ BelowThreeHalves(c.orig_rate, c.target_rate.v)

\* the call is a downsample whose factor, given or derived, is above 1
FactorAboveOne(c) ==
    /\ c.fn = "downsample"
    /\ \/ c.factor.given /\ c.factor.v > 1
       \/ /\ ~c.factor.given
          /\ c.target_rate.given
          /\ c.target_rate.v # 0
          /\ ~BelowThreeHalves(c.orig_rate, c.target_rate.v)

\* the input array still holds the values it held at the call
InputIntact == mem[arr.buf].kind = "data" /\ ViewValue(mem, arr) = arr0

\* C3 as stated: downsample raises ValueError whenever neither factor nor
\* target_rate is given, and whenever the method is neither 'slice' nor
\* 'decimate', whatever the other arguments.
C3_InvalidCallRaises ==
    (/\ tpc = "returned"
     /\ call.fn = "downsample"
     /\ \/ ~call.factor.given /\ ~call.target_rate.given
        \/ call.method \notin {"slice", "decimate"})
        => ret.kind = "raise" /\ ret.exc = "ValueError"

\* C4: downsample with a factor of at most 1, given (0 and negatives too) or
\* derived from the rates, hands back the input unchanged for both methods:
\* the same shape and the same element at every position.
C4_FactorAtMostOneIsIdentity ==
    (/\ tpc = "returned"
     /\ FactorAtMostOne(call)
     /\ call.method \in {"slice", "decimate"})
        => /\ ret.kind = "array"
           /\ ret.obj.nrows = NRows(arr0)
           /\ ret.obj.ncols = arr.ncols
           /\ mem[ret.obj.buf].kind = "data"
           /\ ViewValue(mem, ret.obj) = arr0

\* factor=0 with method 'decimate' on a 3-column array gave the input back
C4_Witness ==
    /\ tpc = "returned"
    /\ call.fn = "downsample"
    /\ call.factor.given
    /\ call.factor.v = 0
    /\ call.method = "decimate"
    /\ arr.ncols = 3
    /\ ret.kind = "array"
    /\ ViewValue(mem, ret.obj) = arr0

\* C5: with method 'slice', no factor, the default axis and an integer k > 1
\* nearest to orig_rate / target_rate, the result is every k-th sample from
\* sample 0 on: column j of the output is column j * k of the input (counted
\* from 0), there are ceil(T / k) columns, and every row is kept.
C5_EveryKthSample ==
    (/\ tpc = "returned"
     /\ call.fn = "downsample"
     /\ ~call.factor.given
     /\ call.target_rate.given
     /\ call.target_rate.v # 0
     /\ call.method = "slice"
     /\ call.axis = 1
     /\ \E k \in 2..(call.orig_rate + 1) :
            Nearest(k, call.orig_rate, call.target_rate.v))
        => /\ ret.kind = "array"
           /\ \E k \in 2..(call.orig_rate + 1) :
                  /\ Nearest(k, call.orig_rate, call.target_rate.v)
                  /\ ret.obj.nrows = NRows(arr0)
                  /\ ret.obj.ncols = (arr.ncols + k - 1) \div k
                  /\ \A i \in 1..ret.obj.nrows, j \in 1..ret.obj.ncols :
                         ViewValue(mem, ret.obj)[i][j] = arr0[i][(j - 1) * k + 1]

\* 5 Hz to 2 Hz (2.5, rounded to 2) on three columns keeps columns 0 and 2
C5_Witness ==
    /\ tpc = "returned"
    /\ call.fn = "downsample"
    /\ ~call.factor.given
    /\ call.target_rate.given
    /\ call.target_rate.v = 2
    /\ call.orig_rate = 5
    /\ call.method = "slice"
    /\ call.axis = 1
    /\ ret.kind = "array"
    /\ ViewValue(mem, ret.obj) = << <<11, 13>>, <<21, 23>> >>

\* C7 as stated: no transform changes its input, and what it returns is
\* another object than the input, whose later modification leaves the input
\* as it was.
C7_Original ==
    (tpc \in {"returned", "modified"} /\ ret.kind = "array")
        => /\ ret.obj.id # arr.id
           /\ InputIntact

\* the result of the call is a new array on memory of its own
FreshResult == ret.obj.id # arr.id /\ ret.obj.buf # arr.buf

\* C7, amended: no transform changes its input during the call.  minmax_scale
\* and zscore, and downsample with method 'decimate' and a factor above 1,
\* return a new array on its own memory, and modifying it leaves the input as
\* it was.  downsample with a factor of at most 1 returns the input object
\* itself, and with method 'slice' and a factor above 1 a new object that is a
\* view on the input's memory.
C7_NoMutationFreshUnlessSliceOrNoOp ==
    /\ tpc = "returned" => InputIntact
    /\ (tpc \in {"returned", "modified"} /\ ret.kind = "array") =>
           /\ (\/ call.fn \in {"minmax_scale", "zscore"}
               \/ FactorAboveOne(call) /\ call.method = "decimate")
                  => FreshResult /\ InputIntact
           /\ FactorAtMostOne(call) => ret.obj = arr
           /\ (FactorAboveOne(call) /\ call.method = "slice")
                  => ret.obj.id # arr.id /\ ret.obj.buf = arr.buf

\* the array minmax_scale returned was modified and the input is as it was
C7_Witness ==
    /\ tpc = "modified"
    /\ call.fn = "minmax_scale"
    /\ arr.ncols >= 2
    /\ FreshResult
    /\ InputIntact

\* the number d + e * 1e-12 is positive
DenPositive(den) == den.d > 0 \/ (den.d = 0 /\ den.e > 0)

\* the integer n is at most d + e * 1e-12
AtMostDen(n, den) == n < den.d \/ (n = den.d /\ den.e >= 0)

\* C9: with the default axis, every element of minmax_scale's result is
\* (x - min) / (max - min + eps) for its own row's min and max, with a
\* positive denominator, and lies in [0, 1]; the row's minimum maps to 0 and
\* a constant row to zeros.
C9_MinmaxInUnitInterval ==
    (/\ tpc = "returned"
     /\ call.fn = "minmax_scale"
     /\ call.axis = 1
     /\ arr.ncols >= 1)
        => /\ ret.kind = "array"
           /\ ret.obj.nrows = arr.nrows
           /\ ret.obj.ncols = arr.ncols
           /\ \A i \in 1..arr.nrows, j \in 1..arr.ncols :
                  LET q == ViewValue(mem, ret.obj)[i][j]
                      x == arr0[i][j]
                      isMin == \A c \in 1..arr.ncols : x <= arr0[i][c]
                      constant == \A c \in 1..arr.ncols : arr0[i][c] = x
                  IN /\ \E c \in 1..arr.ncols, d \in 1..arr.ncols :
                            /\ \A b \in 1..arr.ncols :
                                   arr0[i][c] <= arr0[i][b] /\ arr0[i][b] <= arr0[i][d]
                            /\ q.n = x - arr0[i][c]
                            /\ q.den.d = arr0[i][d] - arr0[i][c]
                     /\ q.den.e = 1
                     /\ DenPositive(q.den)
                     /\ q.n >= 0
                     /\ AtMostDen(q.n, q.den)
                     /\ isMin => q.n = 0
                     /\ constant => q.n = 0

\* a constant row and a row with distinct values were scaled
C9_Witness ==
    /\ tpc = "returned"
    /\ call.fn = "minmax_scale"
    /\ call.axis = 1
    /\ arr0 = << <<1, 1, 1>>, <<0, -1, 1>> >>
    /\ ret.kind = "array"

====
